---- MODULE Spec2Model ----
(***************************************************************************)
(* Model of the adaptive scoring engine of ranking-logic/ranking-logic.py  *)
(* (class NFLDifficultyRanker): feature extraction, the rule scorer, the   *)
(* routing between rules and the regression model, the active sampler,     *)
(* feedback recording with blending and retraining, and persistence.       *)
(*                                                                         *)
(* Numbers.  Python floats are modelled by scaled integers:                *)
(*   - the running sum of rule_based_score in tenths (2.0 -> 20);          *)
(*   - model predictions in hundredths (2.5 -> 250);                       *)
(*   - difficulty scores and ratings in units (1.0 and 1 are both 1).      *)
(* Strings that the engine only compares (player names, teams) are codes.  *)
(***************************************************************************)
EXTENDS Integers, Sequences, FiniteSets, TLC

VARIABLES
    disk_players,    \* ./nfl_players_32teams_2024.json
    disk_feedback,   \* difficulty_feedback.pkl
    disk_model,      \* difficulty_model.pkl
    players,         \* self.players
    feedback_data,   \* self.feedback_data
    model,           \* self.model
    pc,              \* where the process is: init, loop, prompt, done, aborted
    current,         \* index in players of the player being presented (0: none)
    last,            \* the last step taken and what it did (observation only)
    scripted,        \* whether the user still follows the fixed script of ratings
    loaded_count,    \* len(self.feedback_data) when run() started
    used,            \* the blend weights (tenths) used so far (observation only)
    lost,            \* the files lost or damaged so far (observation only)
    accepted,        \* ratings accepted since the first start (observation only)
    skipped,         \* the user has skipped a player in this session (observation only)
    arg,             \* the player record a scorer is called on directly (Scoring)
    ret,             \* what that call returned (Scoring)
    budget           \* free inputs and restarts still allowed (bounds the exploration)

vars == <<disk_players, disk_feedback, disk_model, players, feedback_data,
          model, pc, current, last, scripted, loaded_count, used, lost,
          accepted, skipped, arg, ret, budget>>

----------------------------------------------------------------------------
(* Bounds of the exploration *)

NP == 32            \* players in the JSON file
MaxInputs == 1      \* inputs (rating, skip, rejected input) explored off the script
MaxRestarts == 1    \* process restarts per behaviour
MaxRound == 3       \* draft rounds of the records scored directly
MaxProBowls == 5    \* Pro Bowl selections of the records scored directly
MaxAllPros == 4     \* All-Pro selections of the records scored directly

(* Program constants *)

RuleOnlyBelow == 15     \* get_current_score: len(feedback_data) < 15
DiverseBelow == 20      \* get_next_player_to_rate: len(feedback_data) < 20
HeavyWeightBelow == 30  \* record_feedback: weight 0.7 if len < 30
RetrainEvery == 10      \* record_feedback: len % 10 == 0
MinTrainRows == 10      \* train_model: len < 10 -> return
VeteranGames == 96      \* games_played >= 96
YoungGames == 32        \* games_played < 32
NumFeatures == 18       \* length of the feature vector

Categories == 1..4      \* self.categories

----------------------------------------------------------------------------
(* Arithmetic helpers *)

Min(a, b) == IF a <= b THEN a ELSE b
Max(a, b) == IF a >= b THEN a ELSE b
Abs(a) == IF a >= 0 THEN a ELSE -a

RECURSIVE Gcd(_, _)
Gcd(a, b) == IF b = 0 THEN a ELSE Gcd(b, a % b)

(* Python's round(x) for x = num/den, den > 0: to the nearest integer, a tie
   going to the even neighbour. *)
PyRound(num, den) ==
    LET q == num \div den
        r == num % den
    IN  IF 2 * r < den THEN q
        ELSE IF 2 * r > den THEN q + 1
        ELSE IF q % 2 = 0 THEN q ELSE q + 1

RECURSIVE SumSeq(_)
SumSeq(s) == IF s = <<>> THEN 0 ELSE Head(s) + SumSeq(Tail(s))

----------------------------------------------------------------------------
(* The player records of the JSON file.  Eight kinds of player repeat along
   the file; player 9 carries the same player_name as player 1 (two
   players of different teams with one name). *)

TopSkill == {"QB", "WR", "RB"}
OffensiveLine == {"OL", "OT", "OG", "C"}
Defense == {"DL", "DE", "DT", "LB", "CB", "S", "DB"}
SkillPosition == {"QB", "WR", "RB", "TE"}

Kind(i) == ((i - 1) % 8) + 1

NameOf(i) == IF i = 9 THEN 1 ELSE i

ScrapedPlayer(i) ==
    LET k == Kind(i)
        base == [player_name |-> NameOf(i), team |-> i, college |-> i]
        attrs ==
          CASE k = 1 -> [position |-> "QB", undrafted |-> FALSE, draft_round |-> 1,
                         games_played |-> 17, games_started |-> 17,
                         pro_bowls |-> 0, all_pros |-> 0, awards |-> <<>>]
            [] k = 2 -> [position |-> "OT", undrafted |-> FALSE, draft_round |-> 3,
                         games_played |-> 120, games_started |-> 100,
                         pro_bowls |-> 0, all_pros |-> 0, awards |-> <<>>]
            [] k = 3 -> [position |-> "LB", undrafted |-> TRUE, draft_round |-> 0,
                         games_played |-> 60, games_started |-> 40,
                         pro_bowls |-> 3, all_pros |-> 0, awards |-> <<>>]
            [] k = 4 -> [position |-> "TE", undrafted |-> FALSE, draft_round |-> 2,
                         games_played |-> 40, games_started |-> 10,
                         pro_bowls |-> 0, all_pros |-> 0, awards |-> <<>>]
            [] k = 5 -> [position |-> "WR", undrafted |-> FALSE, draft_round |-> 2,
                         games_played |-> 50, games_started |-> 25,
                         pro_bowls |-> 0, all_pros |-> 0, awards |-> <<>>]
            [] k = 6 -> [position |-> "K", undrafted |-> FALSE, draft_round |-> 6,
                         games_played |-> 0, games_started |-> 0,
                         pro_bowls |-> 0, all_pros |-> 0, awards |-> <<>>]
            [] k = 7 -> [position |-> "RB", undrafted |-> FALSE, draft_round |-> 1,
                         games_played |-> 100, games_started |-> 90,
                         pro_bowls |-> 5, all_pros |-> 2, awards |-> <<"MVP">>]
            [] OTHER -> [position |-> "C", undrafted |-> TRUE, draft_round |-> 0,
                         games_played |-> 20, games_started |-> 5,
                         pro_bowls |-> 0, all_pros |-> 0, awards |-> <<>>]
    IN  base @@ attrs

ScrapedPlayers == [i \in 1..NP |-> ScrapedPlayer(i)]

HasScore(p) == "difficulty_score" \in DOMAIN p

WithScore(p, s) == [difficulty_score |-> s] @@ p

(* Two records describe the same entity when they agree on everything but the
   difficulty score. *)
SameEntity(p, q) ==
    /\ p.player_name = q.player_name
    /\ p.team = q.team

----------------------------------------------------------------------------
(* extract_features *)

(* a variant that counts a player without games as always starting *)
GamesStartedPctDefaultOne(p) ==
    IF p.games_played > 0
    THEN LET g == Gcd(p.games_started, p.games_played)
         IN  <<p.games_started \div g, p.games_played \div g>>
    ELSE <<1, 1>>

GamesStartedPct(p) ==
    IF p.games_played > 0
    THEN LET g == Gcd(p.games_started, p.games_played)
         IN  <<p.games_started \div g, p.games_played \div g>>
    ELSE <<0, 1>>

B(c) == IF c THEN 1 ELSE 0

(* a variant whose third bucket starts after round 3 *)
DraftBucketsLateThird(p) ==
    << B(~p.undrafted /\ p.draft_round = 1),
       B(~p.undrafted /\ p.draft_round = 2),
       B(~p.undrafted /\ p.draft_round > 3),
       B(p.undrafted) >>

(* lines 52-56 *)
DraftBuckets(p) ==
    << B(~p.undrafted /\ p.draft_round = 1),
       B(~p.undrafted /\ p.draft_round = 2),
       B(~p.undrafted /\ p.draft_round >= 3),
       B(p.undrafted) >>

(* a variant whose fourth tier takes every position the first three leave *)
PositionTiersWithOther(p) ==
    << B(p.position \in TopSkill),
       B(p.position = "TE"),
       B(p.position \in OffensiveLine),
       B(p.position \notin TopSkill \cup {"TE"} \cup OffensiveLine) >>

(* lines 58-62 *)
PositionTiers(p) ==
    << B(p.position \in TopSkill),
       B(p.position = "TE"),
       B(p.position \in OffensiveLine),
       B(p.position \in Defense) >>

(* a variant that lets the stored score into the games count *)
extract_features_with_score(p) ==
    LET has_accolades == p.pro_bowls > 0 \/ p.all_pros > 0 \/ Len(p.awards) > 0
        is_veteran == p.games_played >= VeteranGames
        is_non_skill == p.position \notin SkillPosition
        is_young == p.games_played < YoungGames
        is_first_round == ~p.undrafted /\ p.draft_round = 1
    IN  DraftBuckets(p) \o PositionTiers(p) \o
        << p.pro_bowls,
           p.all_pros,
           Len(p.awards),
           B(has_accolades),
           p.games_played + (IF HasScore(p) THEN p.difficulty_score ELSE 0),
           B(p.games_played >= VeteranGames),
           B(p.games_played < YoungGames),
           B(is_veteran /\ ~has_accolades /\ is_non_skill),
           B(is_young /\ is_first_round),
           GamesStartedPct(p) >>

extract_features(p) ==
    LET has_accolades == p.pro_bowls > 0 \/ p.all_pros > 0 \/ Len(p.awards) > 0
        is_veteran == p.games_played >= VeteranGames
        is_non_skill == p.position \notin SkillPosition
        is_young == p.games_played < YoungGames
        is_first_round == ~p.undrafted /\ p.draft_round = 1
    IN  DraftBuckets(p) \o PositionTiers(p) \o
        << p.pro_bowls,
           p.all_pros,
           Len(p.awards),
           B(has_accolades),
           p.games_played,
           B(p.games_played >= VeteranGames),
           B(p.games_played < YoungGames),
           B(is_veteran /\ ~has_accolades /\ is_non_skill),
           B(is_young /\ is_first_round),
           GamesStartedPct(p) >>

----------------------------------------------------------------------------
(* rule_based_score.  The sum is kept in tenths.  The code adds IEEE doubles:
   0.6 * 3 evaluates to 1.7999999999999998, and -0.3 + 1.7999999999999998 to
   1.4999999999999998, which is below the 1.5 threshold although the decimal
   sum is 1.5.  Over every combination of the branches of the function this
   is the only sum whose double lies on the other side of a threshold than
   its decimal value; SumFallsShort names it. *)

DraftAdj(p) ==
    IF ~p.undrafted
    THEN IF p.draft_round = 1 THEN 20
         ELSE IF p.draft_round = 2 THEN 5
         ELSE 0
    ELSE -3

PositionAdj(p) ==
    IF p.position \in TopSkill THEN 10
    ELSE IF p.position = "TE" THEN 5
    ELSE IF p.position \in OffensiveLine THEN -10
    ELSE 0

HonorsAdj(p) ==
      (IF Len(p.awards) > 0 THEN 15 ELSE 0)
    + (IF p.all_pros > 0 THEN 12 * Min(p.all_pros, 3) ELSE 0)
    + (IF p.pro_bowls > 0 THEN 6 * Min(p.pro_bowls, 4) ELSE 0)

(* a variant in which accolades cost a veteran more than one All-Pro brings *)
CareerAdjVeteranPenalty(p) ==
    LET has_accolades == p.pro_bowls > 0 \/ p.all_pros > 0 \/ Len(p.awards) > 0
        is_veteran == p.games_played >= VeteranGames
        is_skill_position == p.position \in SkillPosition
    IN  IF is_veteran
        THEN IF has_accolades THEN -15
             ELSE IF ~is_skill_position THEN -7
             ELSE 2
        ELSE 0

CareerAdj(p) ==
    LET has_accolades == p.pro_bowls > 0 \/ p.all_pros > 0 \/ Len(p.awards) > 0
        is_veteran == p.games_played >= VeteranGames
        is_skill_position == p.position \in SkillPosition
    IN  IF is_veteran
        THEN IF has_accolades THEN 8
             ELSE IF ~is_skill_position THEN -7
             ELSE 2
        ELSE 0

YoungFirstRoundAdj(p) ==
    IF p.games_played < YoungGames /\ ~p.undrafted /\ p.draft_round = 1
    THEN 12 ELSE 0

RuleSum(p) ==
    DraftAdj(p) + PositionAdj(p) + HonorsAdj(p) + CareerAdj(p) + YoungFirstRoundAdj(p)

SumFallsShort(p) ==
    /\ DraftAdj(p) = -3
    /\ PositionAdj(p) = 0
    /\ Len(p.awards) = 0
    /\ p.all_pros = 0
    /\ p.pro_bowls = 3
    /\ CareerAdj(p) = 0
    /\ YoungFirstRoundAdj(p) = 0

(* score >= threshold, on the double the code holds *)
ScoreAtLeast(p, tenths) ==
    /\ RuleSum(p) >= tenths
    /\ ~(SumFallsShort(p) /\ RuleSum(p) = tenths)

(* a variant whose lowest category is 0 *)
rule_based_score_from_zero(p) ==
    IF ScoreAtLeast(p, 30) THEN 4
    ELSE IF ScoreAtLeast(p, 15) THEN 3
    ELSE IF ScoreAtLeast(p, 0) THEN 2
    ELSE 0

rule_based_score(p) ==
    IF ScoreAtLeast(p, 30) THEN 4
    ELSE IF ScoreAtLeast(p, 15) THEN 3
    ELSE IF ScoreAtLeast(p, 0) THEN 2
    ELSE 1

----------------------------------------------------------------------------
(* The regression model.  self.model is None or a fitted LinearRegression: an
   intercept and one coefficient per feature (hundredths). *)

Zeros == [i \in 1..NumFeatures |-> 0]

None == [trained |-> FALSE, intercept |-> 0, coef |-> Zeros]

Linear(b, c) == [trained |-> TRUE, intercept |-> b, coef |-> c]

(* model.predict(features)[0], in hundredths *)
Predict(m, f) ==
      m.intercept
    + SumSeq([i \in 1..(NumFeatures - 1) |-> m.coef[i] * f[i]])
    + (m.coef[NumFeatures] * f[NumFeatures][1]) \div f[NumFeatures][2]

(* LinearRegression().fit(X, y) is library code: the fit may be any predictor
   of a small family of linear predictors, which holds predictions below 1,
   above 4 and on a tie between two categories. *)
Family ==
    { Linear(250, Zeros),
      Linear(100, [Zeros EXCEPT ![1] = 350, ![6] = 200, ![9] = 50]),
      Linear(20, [Zeros EXCEPT ![5] = 130, ![11] = 200, ![18] = 40]) }

Fit(rows) == Family

----------------------------------------------------------------------------
(* Scoring: ml_score, get_current_score, the two bulk operations *)

Clamp(lo, hi, x) == Max(lo, Min(hi, x))

(* a variant that rounds the prediction without clamping it *)
ml_score_unclamped(m, p) ==
    IF ~m.trained
    THEN rule_based_score(p)
    ELSE PyRound(Predict(m, extract_features(p)), 100)

ml_score(m, p) ==
    IF ~m.trained
    THEN rule_based_score(p)
    ELSE PyRound(Clamp(100, 400, Predict(m, extract_features(p))), 100)

(* a variant that leaves the rules as soon as a model can exist *)
get_current_score_from_ten(fb, m, p) ==
    IF Len(fb) < MinTrainRows
    THEN rule_based_score(p)
    ELSE ml_score(m, p)

get_current_score(fb, m, p) ==
    IF Len(fb) < RuleOnlyBelow
    THEN rule_based_score(p)
    ELSE ml_score(m, p)

(* a variant that gives every player the rule score at startup *)
initialize_every_score(ps) ==
    [i \in DOMAIN ps |-> WithScore(ps[i], rule_based_score(ps[i]))]

initialize_difficulty_scores(ps) ==
    [i \in DOMAIN ps |->
        IF ~HasScore(ps[i]) THEN WithScore(ps[i], rule_based_score(ps[i]))
        ELSE ps[i]]

(* a variant that refreshes with the model whenever there is one *)
update_all_by_model(ps, fb, m) ==
    [i \in DOMAIN ps |-> WithScore(ps[i], ml_score(m, ps[i]))]

update_all_difficulty_scores(ps, fb, m) ==
    [i \in DOMAIN ps |-> WithScore(ps[i], get_current_score(fb, m, ps[i]))]

----------------------------------------------------------------------------
(* get_next_player_to_rate: the set of players random.choice may return, as
   indices into self.players; the empty set stands for None. *)

rated_players(fb) == {fb[k].player.player_name : k \in DOMAIN fb}

(* a variant that forgets who was rated *)
unrated_everyone(ps, fb) == DOMAIN ps

unrated(ps, fb) ==
    LET rated == rated_players(fb)
    IN  {i \in DOMAIN ps : ps[i].player_name \notin rated}

BucketOf(p) == Clamp(1, 4, PyRound(p.difficulty_score, 1))

(* a variant whose dict has no list for the highest category *)
by_difficulty_below_four(ps, un) ==
    [c \in Categories |-> IF c = 4 THEN {} ELSE {i \in un : BucketOf(ps[i]) = c}]

(* the dict by_difficulty, over the unrated players un *)
by_difficulty(ps, un) == [c \in Categories |-> {i \in un : BucketOf(ps[i]) = c}]

(* the dict current_distribution *)
current_distribution(fb) ==
    [c \in Categories |-> Cardinality({k \in DOMAIN fb : fb[k].actual_difficulty = c})]

(* a variant that puts the most rated category first *)
SortsBeforeDescending(dist, c, d) ==
    IF dist[c] = dist[d] THEN c < d ELSE dist[c] > dist[d]

(* a variant that puts the higher-numbered of two tied categories first *)
SortsBeforeTiesHigh(dist, c, d) ==
    IF dist[c] = dist[d] THEN c > d ELSE dist[c] < dist[d]

(* sorted(current_distribution, key=current_distribution.get) is stable: c
   comes before d when it has fewer ratings, or as many and a lower number. *)
SortsBefore(dist, c, d) ==
    IF dist[c] = dist[d] THEN c < d ELSE dist[c] < dist[d]

(* the categories the loop of lines 221-223 returns from: the first one, in
   sorted order, whose bucket is not empty *)
FirstCategory(buckets, dist) ==
    {c \in Categories :
        /\ buckets[c] # {}
        /\ \A d \in Categories \ {c} : buckets[d] # {} => SortsBefore(dist, c, d)}

(* a variant that keeps balancing the categories for ever *)
get_next_player_always_diverse(ps, fb) ==
    LET un == unrated(ps, fb)
        buckets == by_difficulty(ps, un)
        first == FirstCategory(buckets, current_distribution(fb))
    IN  IF un = {} THEN {}
        ELSE IF first # {}
        THEN UNION {buckets[c] : c \in first}
        ELSE un

get_next_player_to_rate(ps, fb) ==
    LET un == unrated(ps, fb)
        buckets == by_difficulty(ps, un)
        first == FirstCategory(buckets, current_distribution(fb))
    IN  IF un = {} THEN {}
        ELSE IF Len(fb) < DiverseBelow /\ first # {}
        THEN UNION {buckets[c] : c \in first}
        ELSE un

----------------------------------------------------------------------------
(* record_feedback and train_model, on the triple (players, feedback, model) *)

Engine(ps, fb, m) == [players |-> ps, feedback_data |-> fb, model |-> m]

FeedbackRecord(p, user_rating) ==
    [player |-> p,
     predicted_difficulty |-> p.difficulty_score,
     actual_difficulty |-> user_rating,
     features |-> extract_features(p),
     error |-> Abs(user_rating - p.difficulty_score)]

(* a variant that keeps the heavy weight for the 30th record *)
BlendWeightThroughThirty(n) == IF n <= HeavyWeightBelow THEN 7 ELSE 5

(* weight, in tenths, for a history of n records (the new one included) *)
BlendWeight(n) == IF n < HeavyWeightBelow THEN 7 ELSE 5

(* a variant with the two weights exchanged *)
BlendSwapped(w, user_rating, score) ==
    PyRound((10 - w) * user_rating + w * score, 10)

(* round(weight * user_rating + (1 - weight) * difficulty_score) *)
Blend(w, user_rating, score) == PyRound(w * user_rating + (10 - w) * score, 10)

(* a variant that blends first and builds the record from the blended player *)
AppendAfterBlend(S, i, user_rating) ==
    LET s  == Blend(BlendWeight(Len(S.feedback_data) + 1), user_rating,
                    S.players[i].difficulty_score)
        ps == [S.players EXCEPT ![i] = WithScore(@, s)]
    IN  Engine(ps, Append(S.feedback_data, FeedbackRecord(ps[i], user_rating)), S.model)

(* a variant that writes the blended score to every player of the rated
   player's position *)
AppendAndBlendPosition(S, i, user_rating) ==
    LET fb == Append(S.feedback_data, FeedbackRecord(S.players[i], user_rating))
        s  == Blend(BlendWeight(Len(fb)), user_rating, S.players[i].difficulty_score)
    IN  Engine([j \in DOMAIN S.players |->
                   IF S.players[j].position = S.players[i].position
                   THEN WithScore(S.players[j], s) ELSE S.players[j]],
               fb, S.model)

(* lines 286-299: append the record, then blend the player's score *)
AppendAndBlend(S, i, user_rating) ==
    LET fb == Append(S.feedback_data, FeedbackRecord(S.players[i], user_rating))
        s  == Blend(BlendWeight(Len(fb)), user_rating, S.players[i].difficulty_score)
    IN  Engine([S.players EXCEPT ![i] = WithScore(@, s)], fb, S.model)

(* a variant that retrains twice as often *)
RetrainDueEveryFive(n) == n % 5 = 0

RetrainDue(n) == n % RetrainEvery = 0

(* a variant that prepares the rows before the new record is in the history *)
TrainingRowsWithoutLast(fb) ==
    IF Len(fb) < MinTrainRows THEN <<>>
    ELSE [k \in 1..(Len(fb) - 1) |->
            [x |-> fb[k].features, y |-> fb[k].actual_difficulty]]

(* lines 316-317: X and y, one row per record of the history, in its order
   (nothing when the guard of line 312 returns) *)
TrainingRows(fb) ==
    IF Len(fb) < MinTrainRows THEN <<>>
    ELSE [k \in DOMAIN fb |-> [x |-> fb[k].features, y |-> fb[k].actual_difficulty]]

(* lines 324-328: the number of records the model m predicts exactly *)
ExactMatches(m, fb) ==
    Cardinality({k \in DOMAIN fb :
        PyRound(Predict(m, fb[k].features), 100) = fb[k].actual_difficulty})

(* a variant that asks for as many rows as the routing asks for records *)
train_model_from_fifteen(fb, m, fit) == IF Len(fb) < RuleOnlyBelow THEN m ELSE fit

(* a variant that keeps a model once there is one *)
train_model_once(fb, m, fit) ==
    IF Len(fb) < MinTrainRows \/ m.trained THEN m ELSE fit

train_model(fb, m, fit) == IF Len(fb) < MinTrainRows THEN m ELSE fit

(* a variant that trains and leaves the stored scores alone *)
TrainWithoutRefresh(S, fit) ==
    Engine(S.players, S.feedback_data, train_model(S.feedback_data, S.model, fit))

(* a variant in which the bulk refresh reaches the snapshots of the history *)
RefreshSnapshotsToo(S, fit) ==
    LET m == train_model(S.feedback_data, S.model, fit)
    IN  Engine(update_all_difficulty_scores(S.players, S.feedback_data, m),
               [k \in DOMAIN S.feedback_data |->
                   [S.feedback_data[k] EXCEPT !.player =
                       WithScore(@, get_current_score(S.feedback_data, m, @))]],
               m)

(* a variant that refreshes the scores before the new model is in place *)
RefreshThenTrain(S, fit) ==
    LET m == train_model(S.feedback_data, S.model, fit)
    IN  Engine(update_all_difficulty_scores(S.players, S.feedback_data, S.model),
               S.feedback_data, m)

(* lines 304-308 *)
TrainAndRefresh(S, fit) ==
    LET m == train_model(S.feedback_data, S.model, fit)
    IN  Engine(update_all_difficulty_scores(S.players, S.feedback_data, m),
               S.feedback_data, m)

(* a variant that refreshes every score on every rating *)
RefreshOnEveryRating(A, fit) ==
    IF RetrainDue(Len(A.feedback_data))
    THEN [retrained |-> TRUE] @@ TrainAndRefresh(A, fit)
    ELSE [retrained |-> FALSE] @@
            Engine(update_all_difficulty_scores(A.players, A.feedback_data, A.model),
                   A.feedback_data, A.model)

(* lines 304-308 on the engine A that lines 286-299 left; retrained tells
   whether the condition of line 305 held *)
RetrainCheck(A, fit) ==
    IF RetrainDue(Len(A.feedback_data))
    THEN [retrained |-> TRUE] @@ TrainAndRefresh(A, fit)
    ELSE [retrained |-> FALSE] @@ A

record_feedback(S, i, user_rating, fit) ==
    RetrainCheck(AppendAndBlend(S, i, user_rating), fit)

(* the fits train_model may produce on the engine A *)
FitChoices(A) ==
    IF RetrainDue(Len(A.feedback_data)) /\ Len(A.feedback_data) >= MinTrainRows
    THEN Fit(TrainingRows(A.feedback_data))
    ELSE {A.model}

----------------------------------------------------------------------------
(* Persistence.  A file is absent, unreadable, or holds what was last dumped. *)

Absent == [status |-> "absent", data |-> <<>>]
Corrupt == [status |-> "corrupt", data |-> <<>>]
Stored(x) == [status |-> "ok", data |-> x]

(* json.dump / json.load of the players file.  A value is kept as the text
   json writes for it: a number as its decimal digits, True, False and None
   as the words true, false and null, a string as the characters between
   its quotes, a list as the sequence of its elements' texts.  json.load
   reads each text back by the kind of value it stands for.  The model
   keeps a record without a round as draft_round = 0, which stands for
   None. *)
DigitChars == <<"0", "1", "2", "3", "4", "5", "6", "7", "8", "9">>

RECURSIVE DigitsOf(_)
DigitsOf(n) ==
    IF n < 10 THEN <<DigitChars[n + 1]>>
    ELSE Append(DigitsOf(n \div 10), DigitChars[(n % 10) + 1])

DigitValue(c) == CHOOSE d \in 0..9 : DigitChars[d + 1] = c

RECURSIVE NumberOf(_)
NumberOf(ds) ==
    IF Len(ds) = 1 THEN DigitValue(ds[1])
    ELSE 10 * NumberOf(SubSeq(ds, 1, Len(ds) - 1)) + DigitValue(ds[Len(ds)])

JsonNumber(n) == DigitsOf(n)
JsonString(s) == s
JsonLiteral(t) == <<t>>
JsonStrings(vs) == [j \in DOMAIN vs |-> JsonString(vs[j])]

(* a record as the scraper wrote it *)
JsonFields(p) ==
    [player_name |-> JsonString(p.player_name),
     team |-> JsonString(p.team),
     college |-> JsonString(p.college),
     position |-> JsonString(p.position),
     undrafted |-> JsonLiteral(IF p.undrafted THEN "true" ELSE "false"),
     draft_round |-> IF p.draft_round = 0 THEN JsonLiteral("null")
                     ELSE JsonNumber(p.draft_round),
     games_played |-> JsonNumber(p.games_played),
     games_started |-> JsonNumber(p.games_started),
     pro_bowls |-> JsonNumber(p.pro_bowls),
     all_pros |-> JsonNumber(p.all_pros),
     awards |-> JsonStrings(p.awards)]

(* a record that carries a difficulty_score *)
JsonScoredFields(p) ==
    [player_name |-> JsonString(p.player_name),
     team |-> JsonString(p.team),
     college |-> JsonString(p.college),
     position |-> JsonString(p.position),
     undrafted |-> JsonLiteral(IF p.undrafted THEN "true" ELSE "false"),
     draft_round |-> IF p.draft_round = 0 THEN JsonLiteral("null")
                     ELSE JsonNumber(p.draft_round),
     games_played |-> JsonNumber(p.games_played),
     games_started |-> JsonNumber(p.games_started),
     pro_bowls |-> JsonNumber(p.pro_bowls),
     all_pros |-> JsonNumber(p.all_pros),
     awards |-> JsonStrings(p.awards),
     difficulty_score |-> JsonNumber(p.difficulty_score)]

JsonObject(p) == IF HasScore(p) THEN JsonScoredFields(p) ELSE JsonFields(p)

PyString(j) == j
PyNumber(j) == NumberOf(j)
PyBool(j) == j = <<"true">>
PyStrings(j) == [i \in DOMAIN j |-> PyString(j[i])]

PyFields(o) ==
    [player_name |-> PyString(o.player_name),
     team |-> PyString(o.team),
     college |-> PyString(o.college),
     position |-> PyString(o.position),
     undrafted |-> PyBool(o.undrafted),
     draft_round |-> IF o.draft_round = <<"null">> THEN 0
                     ELSE PyNumber(o.draft_round),
     games_played |-> PyNumber(o.games_played),
     games_started |-> PyNumber(o.games_started),
     pro_bowls |-> PyNumber(o.pro_bowls),
     all_pros |-> PyNumber(o.all_pros),
     awards |-> PyStrings(o.awards)]

PyScoredFields(o) ==
    [player_name |-> PyString(o.player_name),
     team |-> PyString(o.team),
     college |-> PyString(o.college),
     position |-> PyString(o.position),
     undrafted |-> PyBool(o.undrafted),
     draft_round |-> IF o.draft_round = <<"null">> THEN 0
                     ELSE PyNumber(o.draft_round),
     games_played |-> PyNumber(o.games_played),
     games_started |-> PyNumber(o.games_started),
     pro_bowls |-> PyNumber(o.pro_bowls),
     all_pros |-> PyNumber(o.all_pros),
     awards |-> PyStrings(o.awards),
     difficulty_score |-> PyNumber(o.difficulty_score)]

PyObject(o) ==
    IF "difficulty_score" \in DOMAIN o THEN PyScoredFields(o) ELSE PyFields(o)

(* a variant that writes the records as scraped, without difficulty_score *)
JsonDumpWithoutScores(ps) == [i \in DOMAIN ps |-> JsonFields(ps[i])]

JsonDump(ps) == [i \in DOMAIN ps |-> JsonObject(ps[i])]

JsonLoad(doc) == [i \in DOMAIN doc |-> PyObject(doc[i])]

save_players(ps) == Stored(JsonDump(ps))

(* load_players on a readable file *)
load_players(dp) == JsonLoad(dp.data)

(* save_feedback: the history always, the model only when there is one *)
SavedFeedback(fb) == Stored(fb)
SavedModel(m, dm) == IF m.trained THEN Stored(m) ELSE dm

(* a variant that restores nothing unless both files are readable *)
load_feedback_all_or_nothing(df, dm) ==
    IF df.status = "ok" /\ dm.status = "ok"
    THEN [feedback_data |-> df.data, model |-> dm.data]
    ELSE [feedback_data |-> <<>>, model |-> None]

(* load_feedback: one try block around both loads; an exception in the first
   load skips the second *)
load_feedback(df, dm) ==
    IF df.status = "corrupt"
    THEN [feedback_data |-> <<>>, model |-> None]
    ELSE [feedback_data |-> IF df.status = "ok" THEN df.data ELSE <<>>,
          model |-> IF dm.status = "ok" THEN dm.data ELSE None]

----------------------------------------------------------------------------
(* Bounding the exploration.  Every behaviour starts from the scraped file
   and no feedback.  To reach histories of 10, 15, 20 and 30 records, the
   user first follows a script: the lowest-numbered player the sampler
   offers, the ratings 1, 2, 3, 4 in turn, and a fixed fit per retrain.  At
   the counts of FreeFrom the exploration may leave the script; from then on
   every input and every sampler choice (one candidate per kind of player,
   see Offered) is explored, within budget. *)

ScriptRating(n) == ((n - 1) % 4) + 1

ScriptPick(choices) == CHOOSE i \in choices : \A j \in choices : i <= j

ScriptFit(fits) ==
    CHOOSE m \in fits :
        \A o \in fits : Abs(m.intercept - 100) <= Abs(o.intercept - 100)

FreeFrom == {0, 9, 14, 19, 29, NP - 2}

(* Off the script the sampler's draw is explored up to the players' names:
   players of one kind differ in name and team only, so of the candidates
   of each kind the lowest-numbered one stands for all of them. *)
Offered(choices) ==
    {i \in choices : \A j \in choices : Kind(j) = Kind(i) => i <= j}

(* the modes the exploration may continue in from the top of the loop *)
Modes(on, n) ==
    IF ~on THEN {FALSE}
    ELSE IF n >= NP - 2 THEN {FALSE}
    ELSE IF n \in FreeFrom THEN {TRUE, FALSE}
    ELSE {TRUE}

----------------------------------------------------------------------------
(* The process *)

(* no direct call of a scorer is in progress *)
NoCall == [fn |-> "none"]

Did(op) == [op |-> op, i |-> 0, r |-> 0, p |-> 0, w |-> 0, blended |-> 0,
            retrain |-> FALSE, rows |-> <<>>, fit |-> None, prev |-> None]

Init ==
    /\ disk_players \in {save_players(ScrapedPlayers), Absent, Corrupt}
    /\ disk_feedback = Absent
    /\ disk_model = Absent
    /\ players = <<>>
    /\ feedback_data = <<>>
    /\ model = None
    /\ pc = "init"
    /\ current = 0
    /\ last = Did("start")
    /\ scripted = TRUE
    /\ loaded_count = 0
    /\ used = {}
    /\ lost = {}
    /\ accepted = 0
    /\ skipped = FALSE
    /\ arg = NoCall
    /\ ret = NoCall
    /\ budget = [inputs |-> MaxInputs, restarts |-> MaxRestarts]

(* a variant that goes on without players instead of exiting *)
ConstructWithoutPlayers ==
    /\ pc = "init"
    /\ disk_players.status # "ok"
    /\ LET loaded == load_feedback(disk_feedback, disk_model)
       IN  /\ feedback_data' = loaded.feedback_data
           /\ model' = loaded.model
           /\ loaded_count' = Len(loaded.feedback_data)
    /\ players' = <<>>
    /\ pc' = "loop"
    /\ last' = Did("construct")
    /\ UNCHANGED <<disk_players, disk_feedback, disk_model, current, scripted,
                   used, lost, accepted, skipped, budget, arg, ret>>

(* __init__ when load_players fails: exit(1) before anything else happens *)
ConstructAbort ==
    /\ pc = "init"
    /\ disk_players.status # "ok"
    /\ pc' = "aborted"
    /\ last' = Did("abort")
    /\ UNCHANGED <<disk_players, disk_feedback, disk_model, players,
                   feedback_data, model, current, scripted, loaded_count, used, lost, budget, accepted, skipped, arg, ret>>

(* __init__: load_players, load_feedback, initialize_difficulty_scores *)
Construct ==
    /\ pc = "init"
    /\ disk_players.status = "ok"
    /\ LET loaded == load_feedback(disk_feedback, disk_model)
           read == load_players(disk_players)
           updated == \E i \in DOMAIN read : ~HasScore(read[i])
           ps == initialize_difficulty_scores(read)
       IN  /\ players' = ps
           /\ feedback_data' = loaded.feedback_data
           /\ model' = loaded.model
           /\ disk_players' = IF updated THEN save_players(ps) ELSE disk_players
           /\ loaded_count' = Len(loaded.feedback_data)
    /\ pc' = "loop"
    /\ last' = Did("construct")
    /\ UNCHANGED <<disk_feedback, disk_model, current, scripted, used, lost, budget, accepted, skipped, arg, ret>>

(* run, top of the loop: get_next_player_to_rate returns a player *)
Select ==
    /\ pc = "loop"
    /\ LET choices == get_next_player_to_rate(players, feedback_data)
       IN  \E on \in Modes(scripted, Len(feedback_data)) :
             /\ scripted' = on
             /\ on \/ budget.inputs > 0
             /\ \E i \in IF on /\ choices # {} THEN {ScriptPick(choices)}
                         ELSE Offered(choices) :
                  current' = i
    /\ pc' = "prompt"
    /\ last' = Did("select")
    /\ UNCHANGED <<disk_players, disk_feedback, disk_model, players,
                   feedback_data, model, loaded_count, used, lost, budget, accepted, skipped, arg, ret>>

(* a variant of the finally block that leaves the files as they are *)
FinalNoSave ==
    /\ pc' = "done"
    /\ current' = 0
    /\ UNCHANGED <<disk_players, disk_feedback, disk_model, players,
                   feedback_data, model, scripted, loaded_count, used, lost,
                   accepted, skipped, budget, arg, ret>>

(* the finally block of run: save_players, save_feedback *)
FinalSave ==
    /\ disk_players' = save_players(players)
    /\ disk_feedback' = SavedFeedback(feedback_data)
    /\ disk_model' = SavedModel(model, disk_model)
    /\ pc' = "done"
    /\ current' = 0
    /\ UNCHANGED <<players, feedback_data, model, scripted, loaded_count,
                   used, lost, budget, accepted, skipped, arg, ret>>

(* get_next_player_to_rate returns None: break, then the finally block *)
Exhausted ==
    /\ pc = "loop"
    /\ get_next_player_to_rate(players, feedback_data) = {}
    /\ last' = Did("exhausted")
    /\ FinalSave

(* the user enters 1..4: record_feedback, save_players, save_feedback *)
Rate ==
    /\ pc = "prompt"
    /\ scripted \/ budget.inputs > 0
    /\ \E r \in IF scripted THEN {ScriptRating(Len(feedback_data) + 1)} ELSE Categories :
         LET A == AppendAndBlend(Engine(players, feedback_data, model), current, r)
         IN  \E fit \in IF scripted THEN {ScriptFit(FitChoices(A))} ELSE FitChoices(A) :
               LET R == RetrainCheck(A, fit)
               IN  /\ players' = R.players
                   /\ feedback_data' = R.feedback_data
                   /\ model' = R.model
                   /\ disk_players' = save_players(R.players)
                   /\ disk_feedback' = SavedFeedback(R.feedback_data)
                   /\ disk_model' = SavedModel(R.model, disk_model)
                   /\ last' = [op |-> "rate", i |-> current, r |-> r,
                               p |-> players[current].difficulty_score,
                               w |-> BlendWeight(Len(A.feedback_data)),
                               blended |-> A.players[current].difficulty_score,
                               retrain |-> R.retrained,
                               rows |-> IF R.retrained
                                        THEN TrainingRows(A.feedback_data)
                                        ELSE <<>>,
                               fit |-> IF R.retrained THEN fit ELSE None,
                               prev |-> model]
    /\ pc' = "loop"
    /\ current' = 0
    /\ used' = used \cup {BlendWeight(Len(feedback_data) + 1)}
    /\ budget' = IF scripted THEN budget ELSE [budget EXCEPT !.inputs = @ - 1]
    /\ accepted' = accepted + 1
    /\ skipped' = skipped
    /\ UNCHANGED <<scripted, loaded_count, lost, arg, ret>>

(* a variant in which a skip is stored as the lowest rating *)
SkipStoredAsRating ==
    /\ pc = "prompt"
    /\ ~scripted
    /\ budget.inputs > 0
    /\ pc' = "loop"
    /\ current' = 0
    /\ last' = Did("skip")
    /\ budget' = [budget EXCEPT !.inputs = @ - 1]
    /\ feedback_data' = Append(feedback_data, FeedbackRecord(players[current], 1))
    /\ skipped' = TRUE
    /\ UNCHANGED <<disk_players, disk_feedback, disk_model, players,
                   model, scripted, loaded_count, used, lost, accepted, arg, ret>>

(* the user enters skip: continue *)
Skip ==
    /\ pc = "prompt"
    /\ ~scripted
    /\ budget.inputs > 0
    /\ pc' = "loop"
    /\ current' = 0
    /\ last' = Did("skip")
    /\ budget' = [budget EXCEPT !.inputs = @ - 1]
    /\ skipped' = TRUE
    /\ UNCHANGED <<disk_players, disk_feedback, disk_model, players,
                   feedback_data, model, scripted, loaded_count, used, lost, accepted, arg, ret>>

(* any other input: a message, and the prompt again *)
Invalid ==
    /\ pc = "prompt"
    /\ ~scripted
    /\ budget.inputs > 0
    /\ last' = Did("invalid")
    /\ budget' = [budget EXCEPT !.inputs = @ - 1]
    /\ UNCHANGED <<disk_players, disk_feedback, disk_model, players,
                   feedback_data, model, pc, current, scripted, loaded_count,
                   used, lost, accepted, skipped, arg, ret>>

(* the user enters quit: break, then the finally block *)
Quit ==
    /\ pc = "prompt"
    /\ ~scripted
    /\ last' = Did("quit")
    /\ FinalSave

(* Ctrl+C while input() waits: the except clause, then the finally block *)
Interrupt ==
    /\ pc = "prompt"
    /\ ~scripted
    /\ last' = Did("interrupt")
    /\ FinalSave

(* after a run a file is lost or becomes unreadable (explored once, for the
   files as the script left them: before any input off the script and before
   the first restart) *)
Damages ==
    { [file |-> f, status |-> st] :
        f \in {"players", "feedback", "model"}, st \in {"absent", "corrupt"} }

Damaged(file, d, name) ==
    IF d.file = name THEN [status |-> d.status, data |-> <<>>] ELSE file

Damage ==
    /\ pc = "done"
    /\ last.op # "damage"
    /\ budget.restarts = MaxRestarts
    /\ budget.restarts > 0
    /\ budget.inputs = MaxInputs
    /\ \E d \in Damages :
         /\ disk_players' = Damaged(disk_players, d, "players")
         /\ disk_feedback' = Damaged(disk_feedback, d, "feedback")
         /\ disk_model' = Damaged(disk_model, d, "model")
         /\ lost' = lost \cup {d.file}
    /\ last' = Did("damage")
    /\ UNCHANGED <<players, feedback_data, model, pc, current, scripted,
                   loaded_count, used, budget, accepted, skipped, arg, ret>>

(* the program is started again on the files as they are *)
Restart ==
    /\ pc = "done"
    /\ budget.restarts > 0
    /\ pc' = "init"
    /\ players' = <<>>
    /\ feedback_data' = <<>>
    /\ model' = None
    /\ current' = 0
    /\ loaded_count' = 0
    /\ last' = Did("start")
    /\ budget' = [budget EXCEPT !.restarts = @ - 1]
    /\ skipped' = FALSE
    /\ UNCHANGED <<disk_players, disk_feedback, disk_model, scripted, used, lost, accepted, arg, ret>>

Next ==
    \/ ConstructAbort
    \/ Construct
    \/ Select
    \/ Exhausted
    \/ Rate
    \/ Skip
    \/ Invalid
    \/ Quit
    \/ Interrupt
    \/ Damage
    \/ Restart

Spec == Init /\ [][Next]_vars

----------------------------------------------------------------------------
(* Scoring: rule_based_score and extract_features called directly on a
   player record, for every record of a bounded set of valid records. *)

Drafts ==
    {[undrafted |-> TRUE, draft_round |-> 0]}
        \cup {[undrafted |-> FALSE, draft_round |-> r] : r \in 1..MaxRound}

PositionValues == {"QB", "WR", "TE", "OT", "LB", "K"}

AwardLists == {<<>>, <<"MVP">>}

(* games_played and games_started, around the thresholds 32 and 96 *)
Games == {<<0, 0>>, <<17, 0>>, <<17, 17>>, <<31, 10>>, <<32, 16>>,
          <<95, 95>>, <<96, 48>>, <<120, 100>>}

Entity(d, pos, pb, ap, aw, g) ==
    [player_name |-> 1, team |-> 1, college |-> 1, position |-> pos,
     undrafted |-> d.undrafted, draft_round |-> d.draft_round,
     games_played |-> g[1], games_started |-> g[2],
     pro_bowls |-> pb, all_pros |-> ap, awards |-> aw]

Entities ==
    {Entity(d, pos, pb, ap, aw, g) :
        d \in Drafts, pos \in PositionValues, pb \in 0..MaxProBowls,
        ap \in 0..MaxAllPros, aw \in AwardLists, g \in Games}

ScoringInit ==
    /\ disk_players = Absent
    /\ disk_feedback = Absent
    /\ disk_model = Absent
    /\ players = <<>>
    /\ feedback_data = <<>>
    /\ model = None
    /\ pc = "call"
    /\ current = 0
    /\ last = Did("start")
    /\ scripted = FALSE
    /\ loaded_count = 0
    /\ used = {}
    /\ lost = {}
    /\ accepted = 0
    /\ skipped = FALSE
    /\ budget = [inputs |-> 0, restarts |-> 0]
    /\ arg \in Entities
    /\ ret = NoCall

Returned(fn, value, was) == [fn |-> fn, value |-> value, was |-> was]

(* self.rule_based_score(player) *)
CallRuleScore ==
    /\ pc = "call"
    /\ ret = NoCall
    /\ ret' = Returned("rule_based_score", rule_based_score(arg), 0)
    /\ UNCHANGED <<disk_players, disk_feedback, disk_model, players,
                   feedback_data, model, pc, current, last, scripted,
                   loaded_count, used, lost, accepted, skipped, budget, arg>>

(* self.extract_features(player) *)
CallExtractFeatures ==
    /\ pc = "call"
    /\ ret = NoCall
    /\ ret' = Returned("extract_features", extract_features(arg), 0)
    /\ UNCHANGED <<disk_players, disk_feedback, disk_model, players,
                   feedback_data, model, pc, current, last, scripted,
                   loaded_count, used, lost, accepted, skipped, budget, arg>>

(* the same player with one more All-Pro selection is scored; was keeps the
   score returned for the record before *)
EarnAllPro ==
    /\ pc = "call"
    /\ ret.fn = "rule_based_score"
    /\ arg.all_pros < MaxAllPros
    /\ arg' = [arg EXCEPT !.all_pros = @ + 1]
    /\ ret' = Returned("rule_based_score", rule_based_score(arg'), ret.value)
    /\ UNCHANGED <<disk_players, disk_feedback, disk_model, players,
                   feedback_data, model, pc, current, last, scripted,
                   loaded_count, used, lost, accepted, skipped, budget>>

ScoringNext ==
    \/ CallRuleScore
    \/ CallExtractFeatures
    \/ EarnAllPro

Scoring == ScoringInit /\ [][ScoringNext]_vars

----------------------------------------------------------------------------
(* Vocabulary of the properties *)

Loaded == pc \in {"loop", "prompt", "done"}

(* a step of Rate: the user's rating of the presented player was recorded *)
RateStep == pc = "prompt" /\ pc' = "loop" /\ last'.op = "rate"

(* player i of the collection has a feedback record of its own *)
HasRecord(i) ==
    \E k \in DOMAIN feedback_data : SameEntity(feedback_data[k].player, players[i])

(* the player of the collection that record k of the history was taken from *)
EntityOf(k) ==
    CHOOSE i \in DOMAIN players : SameEntity(feedback_data[k].player, players[i])

RatingsOf(c) ==
    Cardinality({k \in DOMAIN feedback_data : feedback_data[k].actual_difficulty = c})

Unrated == unrated(players, feedback_data)

UnratedIn(c) == {j \in Unrated : BucketOf(players[j]) = c}

Choices == get_next_player_to_rate(players, feedback_data)

(* C1: after any sequence of rate and skip events the sampler never returns
   an entity that already has a feedback record, and it returns None exactly
   when every entity of the loaded collection has a feedback record. *)
C1_NoneIffAllRated ==
    Loaded =>
        /\ \A i \in Choices : ~HasRecord(i)
        /\ (Choices = {}) <=> (\A i \in DOMAIN players : HasRecord(i))

(* C2: a rating retrains exactly when the history, the new record included,
   holds a positive multiple of 10 records; the retrain installs a fitted
   model, and every other rating leaves the model as it was. *)
C2_RetrainExactlyOnTens ==
    [][RateStep =>
        /\ last'.retrain <=> (Len(feedback_data') % 10 = 0 /\ Len(feedback_data') > 0)
        /\ last'.retrain => model'.trained /\ model' \in Fit(TrainingRows(feedback_data'))
        /\ ~last'.retrain => model' = model]_vars

C2_Witness ==
    /\ last.op = "rate"
    /\ last.retrain
    /\ Len(feedback_data) = 20
    /\ model.trained

(* the category the model gives a player: the prediction (hundredths) clamped
   to [1, 4] and rounded *)
ModelCategory(m, p) ==
    LET v == Predict(m, extract_features(p))
    IN  IF v <= 100 THEN 1 ELSE IF v >= 400 THEN 4 ELSE PyRound(v, 100)

(* C3: get_current_score is the rule score while fewer than 15 records exist;
   from 15 records on it is the model's clamped, rounded prediction when a
   model exists and the rule score when none does.  In the first run on a
   scraped file a model exists from the 10th record on, so routing is by the
   rules through the 14th record and by the model from the 15th. *)
C3_Routing ==
    Loaded =>
        /\ \A i \in DOMAIN players :
             get_current_score(feedback_data, model, players[i]) =
                IF Len(feedback_data) < 15 THEN rule_based_score(players[i])
                ELSE IF model.trained THEN ModelCategory(model, players[i])
                ELSE rule_based_score(players[i])
        /\ (budget.restarts = MaxRestarts /\ Len(feedback_data) >= 15) => model.trained

C3_Witness ==
    /\ Loaded
    /\ Len(feedback_data) >= 15
    /\ model.trained
    /\ \E i \in DOMAIN players :
         \/ Predict(model, extract_features(players[i])) < 100
         \/ Predict(model, extract_features(players[i])) > 400
    /\ \E i \in DOMAIN players :
         get_current_score(feedback_data, model, players[i]) # rule_based_score(players[i])

(* C4: while fewer than 20 records exist and a player is unrated, every
   player the sampler may return is unrated and lies in a bucket c such that
   no category with strictly fewer actual ratings than c has an unrated
   candidate; the player being presented is one of them. *)
C4_FewestRatedBucket ==
    (Loaded /\ Len(feedback_data) < 20 /\ Unrated # {}) =>
        LET ratings == [c \in Categories |-> RatingsOf(c)]
            open == {c \in Categories : UnratedIn(c) # {}}
            choices == Choices
        IN  /\ choices # {}
            /\ \A i \in choices :
                 /\ i \in Unrated
                 /\ \A d \in open : ratings[d] >= ratings[BucketOf(players[i])]
            /\ pc = "prompt" => current \in choices

C4_Witness ==
    /\ pc = "prompt"
    /\ Len(feedback_data) < 20
    /\ \E d \in Categories :
         /\ UnratedIn(d) # {}
         /\ RatingsOf(d) > RatingsOf(BucketOf(players[current]))
    /\ \E d \in Categories :
         /\ UnratedIn(d) = {}
         /\ d < BucketOf(players[current])
         /\ RatingsOf(d) = RatingsOf(BucketOf(players[current]))

(* C5: in the early sampling phase (fewer than 20 records) the bucket of an
   unrated entity is its current predicted category, get_current_score of
   the entity at that moment. *)
C5_BucketIsCurrentScore ==
    (Loaded /\ Len(feedback_data) < 20) =>
        \A i \in Unrated :
            BucketOf(players[i]) = get_current_score(feedback_data, model, players[i])

(* C6: from 20 records on the sampler balances nothing: the players it may
   return are exactly the unrated ones (those whose name no record carries),
   whatever their bucket and whatever the ratings so far. *)
C6_UniformOverUnrated ==
    (Loaded /\ Len(feedback_data) >= 20) =>
        /\ Choices = {i \in DOMAIN players :
                        \A k \in DOMAIN feedback_data :
                            feedback_data[k].player.player_name # players[i].player_name}
        /\ pc = "prompt" => current \in Choices

C6_Witness ==
    /\ pc = "prompt"
    /\ Len(feedback_data) >= 20
    /\ Cardinality({BucketOf(players[i]) : i \in Unrated}) >= 3
    /\ \E d \in Categories :
         /\ UnratedIn(d) # {}
         /\ RatingsOf(d) < RatingsOf(BucketOf(players[current]))

(* round(w * r + (1 - w) * p) as Python evaluates it, for w = 0.7 and 0.5 and
   r, p in 1..4: BlendTable[w][r][p] *)
BlendTable ==
    [w \in {5, 7} |->
        IF w = 7
        THEN << <<1, 1, 2, 2>>, <<2, 2, 2, 3>>, <<2, 3, 3, 3>>, <<3, 3, 4, 4>> >>
        ELSE << <<1, 2, 2, 2>>, <<2, 2, 2, 3>>, <<2, 2, 3, 4>>, <<2, 3, 4, 4>> >>]

(* C7: a rating r of an entity whose score was p writes
   round(w * r + (1 - w) * p) as the entity's score, for either weight; the
   blend is made on every rating, and when no retrain fires on the rating it
   is the score the entity is left with. *)
C7_Blend ==
    [][RateStep =>
        /\ last'.p = players[current].difficulty_score
        /\ last'.blended = BlendTable[last'.w][last'.r][last'.p]
        /\ ~last'.retrain => players'[current].difficulty_score = last'.blended]_vars

C7_Witness ==
    /\ last.op = "rate"
    /\ last.w = 5
    /\ (last.r + last.p) % 2 = 1
    /\ ~last.retrain
    /\ players[last.i].difficulty_score = last.blended
    /\ last.blended # last.r
    /\ last.blended # last.p

(* C8, as claimed: the weight of a rating is 0.7 while the history, the new
   record included, holds fewer than 30 records and 0.5 otherwise, and once
   0.5 has been used no later rating uses 0.7. *)
C8_WeightNeverReturns ==
    [][RateStep =>
        /\ last'.w = IF Len(feedback_data') < 30 THEN 7 ELSE 5
        /\ 5 \in used => last'.w = 5]_vars

(* C8, amended: the weight is 0.7 below 30 records and 0.5 from 30 on; once
   0.5 has been used no later rating uses 0.7, in the same run and in later
   runs, unless the feedback file was lost or unreadable in between. *)
C8_WeightByCount ==
    [][RateStep =>
        /\ last'.w = IF Len(feedback_data') < 30 THEN 7 ELSE 5
        /\ (5 \in used /\ "feedback" \notin lost) => last'.w = 5]_vars

C8_Witness ==
    /\ last.op = "rate"
    /\ last.w = 5
    /\ loaded_count >= 30
    /\ budget.restarts < MaxRestarts
    /\ 7 \in used

(* C9: on a rating that retrains, the bulk refresh runs after the blend and
   after the fit: every entity, the one just rated included, ends with
   get_current_score under the new history and the new model. *)
C9_RefreshAfterRetrain ==
    [][(RateStep /\ last'.retrain) =>
        \A i \in DOMAIN players' :
            players'[i].difficulty_score =
                get_current_score(feedback_data', model', players'[i])]_vars

C9_Witness ==
    /\ last.op = "rate"
    /\ last.retrain
    /\ Len(feedback_data) >= 15
    /\ players[last.i].difficulty_score # last.blended
    /\ \E i \in DOMAIN players :
         players[i].difficulty_score # rule_based_score(players[i])

(* the records of this run that no retrain coincided with *)
KeptRecords ==
    {k \in (loaded_count + 1)..Len(feedback_data) : k % 10 # 0}

(* C10, as claimed: the score blended on a rating without retrain is kept:
   no later event of the run overwrites it. *)
C10_BlendNeverOverwritten ==
    [][(pc \in {"loop", "prompt"} /\ pc' \in {"loop", "prompt", "done"}) =>
        \A k \in KeptRecords :
            players'[EntityOf(k)].difficulty_score =
                players[EntityOf(k)].difficulty_score]_vars

(* C10, amended: the score blended on a rating without retrain is kept by
   every later event of the run on which no retrain fires; the next rating
   that retrains overwrites it in the bulk refresh. *)
C10_BlendKeptUntilRetrain ==
    [][(pc \in {"loop", "prompt"} /\ pc' \in {"loop", "prompt", "done"}
            /\ ~(RateStep /\ last'.retrain)) =>
        \A k \in KeptRecords :
            players'[EntityOf(k)].difficulty_score =
                players[EntityOf(k)].difficulty_score]_vars

C10_Witness ==
    /\ last.op = "rate"
    /\ ~last.retrain
    /\ Len(feedback_data) >= loaded_count + 2
    /\ LET k == Len(feedback_data) - 1
           e == EntityOf(k)
       IN  /\ k % 10 # 0
           /\ players[e].difficulty_score =
                BlendTable[BlendWeight(k)][feedback_data[k].actual_difficulty]
                          [feedback_data[k].predicted_difficulty]
           /\ players[e].difficulty_score #
                get_current_score(feedback_data, model, players[e])

(* C11: records are appended in the order the ratings are received: a rating
   puts the record of the presented player and the rating typed at the end of
   the history and keeps what was there.  A retrain at count n fits on one
   row per record, the features and the rating of records 1..n in that
   order, the record of the triggering rating included. *)
C11_OrderAndTrainingPrefix ==
    [][RateStep =>
        /\ Len(feedback_data') = Len(feedback_data) + 1
        /\ SubSeq(feedback_data', 1, Len(feedback_data)) = feedback_data
        /\ feedback_data'[Len(feedback_data')].player = players[current]
        /\ feedback_data'[Len(feedback_data')].actual_difficulty = last'.r
        /\ last'.retrain =>
             /\ Len(last'.rows) = Len(feedback_data')
             /\ \A k \in DOMAIN feedback_data' :
                  /\ last'.rows[k].x = extract_features(feedback_data'[k].player)
                  /\ last'.rows[k].y = feedback_data'[k].actual_difficulty]_vars

C11_Witness ==
    /\ last.op = "rate"
    /\ last.retrain
    /\ Len(feedback_data) = 20
    /\ Len(last.rows) = 20
    /\ last.rows[20].y = last.r
    /\ last.rows[20].x = extract_features(players[last.i])
    /\ \E j, k \in DOMAIN last.rows : last.rows[j] # last.rows[k]

(* C12: every retrain makes the newly fitted model the active one, also when
   the new model predicts fewer records of the history exactly than the
   model it replaces. *)
C12_RetrainReplacesModel ==
    [][(RateStep /\ last'.retrain) =>
        /\ last'.fit \in Fit(last'.rows)
        /\ model' = last'.fit
        /\ last'.prev = model]_vars

C12_Witness ==
    /\ last.op = "rate"
    /\ last.retrain
    /\ last.prev.trained
    /\ model # last.prev
    /\ model = last.fit
    /\ ExactMatches(model, feedback_data) < ExactMatches(last.prev, feedback_data)

(* C13: the history is append-only.  Every step of a session leaves it as it
   is or appends one record at the end; the records already there, the
   snapshot of the player and the predicted score included, stay as they
   were through blends, bulk refreshes and retrains. *)
C13_AppendOnly ==
    [][(pc \in {"loop", "prompt"}) =>
        \/ feedback_data' = feedback_data
        \/ /\ RateStep
           /\ Len(feedback_data') = Len(feedback_data) + 1
           /\ \A k \in DOMAIN feedback_data : feedback_data'[k] = feedback_data[k]
           /\ feedback_data'[Len(feedback_data')].predicted_difficulty =
                players[current].difficulty_score]_vars

C13_Witness ==
    /\ last.op = "rate"
    /\ last.retrain
    /\ Len(feedback_data) >= 20
    /\ \E k \in DOMAIN feedback_data :
         /\ k < Len(feedback_data)
         /\ feedback_data[k].player.difficulty_score #
                players[EntityOf(k)].difficulty_score
         /\ feedback_data[k].predicted_difficulty =
                feedback_data[k].player.difficulty_score

(* no two records of the history refer to the same entity *)
OneRecordPerEntity ==
    \A j, k \in DOMAIN feedback_data :
        j # k => ~SameEntity(feedback_data[j].player, feedback_data[k].player)

(* C14, as claimed: after any sequence of events, a save and a restart
   included, no two records refer to the same entity and the history holds
   as many records as ratings were accepted. *)
C14_OneRecordPerRating ==
    Loaded =>
        /\ OneRecordPerEntity
        /\ Len(feedback_data) = accepted

(* C14, amended: no two records ever refer to the same entity; the history
   holds as many records as ratings were accepted as long as the feedback
   file was not lost or unreadable when a session loaded it. *)
C14_OneRecordPerRatingWhileStored ==
    Loaded =>
        /\ OneRecordPerEntity
        /\ "feedback" \notin lost => Len(feedback_data) = accepted

C14_Witness ==
    /\ last.op = "rate"
    /\ budget.restarts < MaxRestarts
    /\ "feedback" \notin lost
    /\ loaded_count > 0
    /\ Len(feedback_data) = loaded_count + 1
    /\ accepted = Len(feedback_data)

SkipStep == pc = "prompt" /\ last'.op = "skip"

InvalidStep == pc = "prompt" /\ last'.op = "invalid"

(* C15: a skip, and an input that is neither a rating 1..4 nor skip nor
   quit, leave the history, every score, the model and the files as they
   are.  After a rejected input the same player is prompted for again;
   after a skip the loop goes on and the skipped player, still unrated, is
   among the players the sampler may return. *)
C15_SkipAndInvalidFrame ==
    [][(SkipStep \/ InvalidStep) =>
        /\ feedback_data' = feedback_data
        /\ players' = players
        /\ model' = model
        /\ UNCHANGED <<disk_players, disk_feedback, disk_model>>
        /\ InvalidStep => (pc' = "prompt" /\ current' = current)
        /\ SkipStep =>
             /\ pc' = "loop"
             /\ current \in unrated(players', feedback_data')
             /\ current \in get_next_player_to_rate(players', feedback_data')]_vars

C15_Witness ==
    /\ last.op = "skip"
    /\ pc = "loop"
    /\ model.trained
    /\ Len(feedback_data) = accepted
    /\ Len(feedback_data) >= 10
    /\ Cardinality(Choices) >= 2

(* the history a session started now would load *)
PersistedHistory == IF disk_feedback.status = "ok" THEN disk_feedback.data ELSE <<>>

(* C16: after every recorded rating the players file holds the scores in
   memory, the feedback file the history in memory, and the model file, when
   it holds a model, the model in memory. *)
C16_PersistedEqualsMemory ==
    (pc = "loop" /\ last.op = "rate") =>
        /\ disk_players = save_players(players)
        /\ disk_feedback = Stored(feedback_data)
        /\ model.trained => disk_model = Stored(model)
        /\ disk_model.status = "ok" => disk_model.data = model

(* C17: however the loop ends (quit, no player left, interrupt at the
   prompt), the finally block has written the scores and the history: when
   the process ends the files hold what was in memory, and the ratings
   recorded in the session are all in the feedback file. *)
C17_SavedOnEveryExit ==
    (pc = "done" /\ last.op \in {"quit", "exhausted", "interrupt"}) =>
        /\ disk_players = save_players(players)
        /\ disk_feedback = Stored(feedback_data)
        /\ model.trained => disk_model = Stored(model)
        /\ "feedback" \notin lost => Len(disk_feedback.data) = accepted

C17_Witness ==
    /\ pc = "done"
    /\ last.op = "interrupt"
    /\ Len(feedback_data) > loaded_count
    /\ disk_players = save_players(players)
    /\ disk_feedback = Stored(feedback_data)
    /\ \E i \in DOMAIN players :
         players[i].difficulty_score # rule_based_score(players[i])

(* Construct on files of which the feedback file or the model file is absent
   or unreadable *)
FaultyLoad ==
    /\ pc = "init"
    /\ pc' = "loop"
    /\ disk_feedback.status # "ok" \/ disk_model.status # "ok"

(* C18, as claimed: when the feedback file or the model file is corrupt or
   missing at load, the session starts with an empty history and no model
   and goes on. *)
C18_NoPriorHistory ==
    [][FaultyLoad => (feedback_data' = <<>> /\ model' = None)]_vars

(* C18, amended: when the feedback file or the model file is corrupt or
   missing at load, the session goes on and scores by the rules; what is
   corrupt or missing is taken as not there (an empty history for the
   feedback file, no model for the model file), and a readable history is
   still restored when only the model file is at fault. *)
C18_FaultyLoadDegrades ==
    [][(pc = "init" /\ disk_players.status = "ok"
            /\ (disk_feedback.status # "ok" \/ disk_model.status # "ok")) =>
        /\ pc' = "loop"
        /\ feedback_data' = PersistedHistory
        /\ disk_model.status # "ok" => model' = None
        /\ \A i \in DOMAIN players' :
             get_current_score(feedback_data', model', players'[i]) =
                rule_based_score(players'[i])]_vars

C18_Witness ==
    /\ pc = "loop"
    /\ last.op = "construct"
    /\ "model" \in lost
    /\ Len(feedback_data) >= 15
    /\ model = None
    /\ \E i \in DOMAIN players :
         players[i].difficulty_score # rule_based_score(players[i])

(* C19: the history and the model are loaded independently: each is
   restored exactly when its own file is readable, whatever the state of
   the other file. *)
C19_IndependentLoads ==
    [][(pc = "init" /\ pc' = "loop") =>
        /\ feedback_data' = PersistedHistory
        /\ model' = IF disk_model.status = "ok" THEN disk_model.data ELSE None]_vars

(* C20: when the players file is missing or is not valid JSON the program
   ends in construction: nothing is loaded, scored or written, and it does
   nothing afterwards.  A session only ever runs on the whole collection. *)
C20_AbortBeforeScoring ==
    [][/\ (pc = "init" /\ disk_players.status # "ok") =>
            /\ pc' = "aborted"
            /\ players' = <<>> /\ feedback_data' = <<>> /\ model' = None
            /\ UNCHANGED <<disk_players, disk_feedback, disk_model>>
       /\ pc = "aborted" => UNCHANGED vars
       /\ pc' \in {"loop", "prompt", "done"} =>
            /\ Len(players') = NP
            /\ \A i \in DOMAIN players' :
                 /\ HasScore(players'[i])
                 /\ SameEntity(players'[i], ScrapedPlayer(i))]_vars

C20_Witness ==
    /\ pc = "aborted"
    /\ "players" \in lost
    /\ disk_feedback.status = "ok"
    /\ Len(disk_feedback.data) >= 10
    /\ disk_model.status = "ok"
    /\ players = <<>>
    /\ feedback_data = <<>>
    /\ model = None

----------------------------------------------------------------------------
(* Properties of the scorers called directly (specification Scoring) *)

RuleScoreReturned == ret.fn = "rule_based_score"

FeaturesReturned == ret.fn = "extract_features"

(* C21: rule_based_score returns 1, 2, 3 or 4 for every valid record. *)
C21_RuleScoreInRange ==
    RuleScoreReturned => ret.value \in {1, 2, 3, 4}

C21_Witness ==
    /\ RuleScoreReturned
    /\ ret.value = 1
    /\ arg.pro_bowls = 0 /\ arg.all_pros = 0
    /\ \E e \in Entities : rule_based_score(e) = 4

(* C22: rule_based_score is monotone in the All-Pro count: of two records
   that differ only in that count, the one with more selections never gets
   the lower score, also when the first selection turns a veteran without
   accolades into one with accolades. *)
C22_MonotoneInAllPros ==
    [][(RuleScoreReturned /\ ret'.fn = "rule_based_score"
            /\ arg' = [arg EXCEPT !.all_pros = @ + 1]) =>
        ret'.value >= ret.value]_vars

C22_Witness ==
    /\ RuleScoreReturned
    /\ ret.was >= 1
    /\ arg.all_pros = 1
    /\ arg.pro_bowls = 0
    /\ arg.awards = <<>>
    /\ arg.games_played >= VeteranGames
    /\ arg.position \notin SkillPosition
    /\ ret.value > ret.was

(* the sum of section 4.2 in tenths, in exact arithmetic *)
ReferenceSum(p) ==
      (IF p.undrafted THEN -3
       ELSE IF p.draft_round = 1 THEN 20
       ELSE IF p.draft_round = 2 THEN 5 ELSE 0)
    + (IF p.position \in {"QB", "WR", "RB"} THEN 10
       ELSE IF p.position = "TE" THEN 5
       ELSE IF p.position \in {"OL", "OT", "OG", "C"} THEN -10 ELSE 0)
    + (IF Len(p.awards) > 0 THEN 15 ELSE 0)
    + 12 * (IF p.all_pros < 3 THEN p.all_pros ELSE 3)
    + 6 * (IF p.pro_bowls < 4 THEN p.pro_bowls ELSE 4)
    + (IF p.games_played < 96 THEN 0
       ELSE IF p.pro_bowls > 0 \/ p.all_pros > 0 \/ Len(p.awards) > 0 THEN 8
       ELSE IF p.position \notin {"QB", "WR", "RB", "TE"} THEN -7
       ELSE 2)
    + (IF p.games_played < 32 /\ ~p.undrafted /\ p.draft_round = 1 THEN 12 ELSE 0)

ReferenceScore(p) ==
    IF ReferenceSum(p) >= 30 THEN 4
    ELSE IF ReferenceSum(p) >= 15 THEN 3
    ELSE IF ReferenceSum(p) >= 0 THEN 2
    ELSE 1

(* C23: rule_based_score equals the reference computation of section 4.2:
   the sum of the adjustments from 0, mapped by the first match of
   sum >= 3.0 -> 4, sum >= 1.5 -> 3, sum >= 0 -> 2, else 1. *)
C23_EqualsReference ==
    RuleScoreReturned => ret.value = ReferenceScore(arg)

(* C25: exactly one of the four draft features is 1 and the others are 0:
   the one of the record's round (1, 2, 3 and later) or of undrafted. *)
C25_DraftOneHot ==
    FeaturesReturned =>
        LET f == ret.value
        IN  /\ \A k \in 1..4 : f[k] \in {0, 1}
            /\ f[1] + f[2] + f[3] + f[4] = 1
            /\ f[1] = 1 <=> (~arg.undrafted /\ arg.draft_round = 1)
            /\ f[2] = 1 <=> (~arg.undrafted /\ arg.draft_round = 2)
            /\ f[3] = 1 <=> (~arg.undrafted /\ arg.draft_round >= 3)
            /\ f[4] = 1 <=> arg.undrafted

C25_Witness ==
    /\ FeaturesReturned
    /\ ~arg.undrafted
    /\ arg.draft_round = 3
    /\ SubSeq(ret.value, 1, 4) = <<0, 0, 1, 0>>

(* C26, as claimed: exactly one of the four position features is 1, the
   fourth for every position that is in none of the first three tiers. *)
C26_PositionOneHot ==
    FeaturesReturned =>
        LET f == ret.value
        IN  /\ \A k \in 5..8 : f[k] \in {0, 1}
            /\ f[5] + f[6] + f[7] + f[8] = 1
            /\ f[8] = 1 <=>
                 arg.position \notin {"QB", "WR", "RB", "TE", "OL", "OT", "OG", "C"}

(* C26, amended: at most one of the four position features is 1.  The
   first three are the tiers top skill, tight end and offensive line; the
   fourth is set for the defensive positions DL, DE, DT, LB, CB, S and DB
   only, and a position in none of the four lists (a kicker, say) has all
   four at 0. *)
C26_PositionAtMostOne ==
    FeaturesReturned =>
        LET f == ret.value
        IN  /\ \A k \in 5..8 : f[k] \in {0, 1}
            /\ f[5] + f[6] + f[7] + f[8] <= 1
            /\ f[5] = 1 <=> arg.position \in {"QB", "WR", "RB"}
            /\ f[6] = 1 <=> arg.position = "TE"
            /\ f[7] = 1 <=> arg.position \in {"OL", "OT", "OG", "C"}
            /\ f[8] = 1 <=> arg.position \in {"DL", "DE", "DT", "LB", "CB", "S", "DB"}

C26_Witness ==
    /\ FeaturesReturned
    /\ arg.position = "K"
    /\ SubSeq(ret.value, 5, 8) = <<0, 0, 0, 0>>

(* C27: the games-started ratio is 0, and nothing fails, for a record with
   no games played; for every record with games_started <= games_played it
   is games_started / games_played, a value in [0, 1]. *)
C27_StartRatio ==
    FeaturesReturned =>
        LET r == ret.value[NumFeatures]
        IN  /\ r[2] > 0
            /\ arg.games_played = 0 => r[1] = 0
            /\ arg.games_played > 0 => r[1] * arg.games_played = arg.games_started * r[2]
            /\ arg.games_started <= arg.games_played => (0 <= r[1] /\ r[1] <= r[2])

C27_Witness ==
    /\ FeaturesReturned
    /\ arg.games_played = 0
    /\ Len(ret.value) = NumFeatures
    /\ ret.value[NumFeatures][1] = 0

----------------------------------------------------------------------------
(* Properties of the features and scores inside a session (specification Spec) *)

(* C24: extract_features is a pure function of the entity record: the
   vector has exactly 18 elements, the same record always yields the same
   vector, and neither the feedback history, nor the model, nor the
   entity's difficulty_score changes it: at any moment of a session the
   vector of a player is the vector of its record as scraped, and the vector
   stored in a feedback record is the vector its entity yields now. *)
C24_PureFeatures ==
    Loaded =>
        /\ \A i \in DOMAIN players :
             /\ Len(extract_features(players[i])) = NumFeatures
             /\ extract_features(players[i]) = extract_features(ScrapedPlayer(i))
        /\ \A k \in DOMAIN feedback_data :
             feedback_data[k].features = extract_features(players[EntityOf(k)])

C24_Witness ==
    /\ Loaded
    /\ model.trained
    /\ Len(feedback_data) >= RuleOnlyBelow
    /\ \E k \in DOMAIN feedback_data :
         /\ players[EntityOf(k)].difficulty_score # feedback_data[k].player.difficulty_score
         /\ feedback_data[k].features = extract_features(players[EntityOf(k)])

(* C28: once initialization has run every entity has a difficulty_score,
   and after any sequence of ratings, skips, retrains and bulk refreshes
   (the persisted collection holding no score outside 1..4) every
   difficulty_score is one of 1, 2, 3, 4. *)
C28_ScoreDefinedInRange ==
    Loaded =>
        \A i \in DOMAIN players :
            /\ HasScore(players[i])
            /\ players[i].difficulty_score \in {1, 2, 3, 4}

C28_Witness ==
    /\ last.op = "rate"
    /\ last.retrain
    /\ model.trained
    /\ Len(feedback_data) >= RuleOnlyBelow
    /\ \E i \in DOMAIN players :
         /\ Predict(model, extract_features(players[i])) < 100
         /\ players[i].difficulty_score = 1
    /\ \E i \in DOMAIN players : players[i].difficulty_score = 4

(* C29: the record a rating creates holds the entity's difficulty_score
   from immediately before the blend, both as predicted_difficulty and
   inside the entity snapshot, the user's rating (one of 1..4), the feature
   vector of the entity, and error = |rating - predicted_difficulty|, a
   value in 0..3. *)
C29_RecordAtCreation ==
    [][RateStep =>
        LET rec == feedback_data'[Len(feedback_data')]
            was == players[current]
        IN  /\ Len(feedback_data') = Len(feedback_data) + 1
            /\ rec.predicted_difficulty = was.difficulty_score
            /\ rec.player = was
            /\ rec.actual_difficulty = last'.r
            /\ rec.actual_difficulty \in 1..4
            /\ rec.features = extract_features(was)
            /\ rec.error = Abs(rec.actual_difficulty - rec.predicted_difficulty)
            /\ rec.error \in 0..3]_vars

C29_Witness ==
    /\ last.op = "rate"
    /\ ~last.retrain
    /\ LET rec == feedback_data[Len(feedback_data)]
       IN  /\ rec.error >= 2
           /\ rec.player.difficulty_score = rec.predicted_difficulty
           /\ players[last.i].difficulty_score # rec.predicted_difficulty
           /\ players[last.i].difficulty_score = last.blended

(* what a session started on the files as they are would begin with *)
Reloaded ==
    LET loaded == load_feedback(disk_feedback, disk_model)
    IN  Engine(initialize_difficulty_scores(load_players(disk_players)),
               loaded.feedback_data, loaded.model)

(* the process has ended through the finally block of run *)
Ended == pc = "done" /\ last.op \in {"quit", "exhausted", "interrupt"}

(* C30: saving and then loading the entity collection and the feedback
   history (a session restart) reproduces the same difficulty_score for
   every entity and the same ratings, predicted scores and feature vectors
   for every feedback record, so the restarted session continues in the same
   routing phase (the same current score for every entity), the same
   sampler phase (the same candidates) and the same retrain schedule and
   blend weight. *)
C30_RoundTrip ==
    Ended =>
        LET R == Reloaded
        IN  /\ disk_players.status = "ok"
            /\ Len(R.players) = Len(players)
            /\ \A i \in DOMAIN players :
                 /\ R.players[i].difficulty_score = players[i].difficulty_score
                 /\ R.players[i] = players[i]
                 /\ get_current_score(R.feedback_data, R.model, R.players[i])
                      = get_current_score(feedback_data, model, players[i])
            /\ Len(R.feedback_data) = Len(feedback_data)
            /\ \A k \in DOMAIN feedback_data :
                 /\ R.feedback_data[k].actual_difficulty = feedback_data[k].actual_difficulty
                 /\ R.feedback_data[k].predicted_difficulty = feedback_data[k].predicted_difficulty
                 /\ R.feedback_data[k].features = feedback_data[k].features
                 /\ R.feedback_data[k].player = feedback_data[k].player
            /\ get_next_player_to_rate(R.players, R.feedback_data)
                 = get_next_player_to_rate(players, feedback_data)
            /\ RetrainDue(Len(R.feedback_data) + 1) = RetrainDue(Len(feedback_data) + 1)
            /\ BlendWeight(Len(R.feedback_data) + 1) = BlendWeight(Len(feedback_data) + 1)

C30_Witness ==
    /\ Ended
    /\ Len(feedback_data) >= RuleOnlyBelow
    /\ model.trained
    /\ Reloaded.model = model
    /\ disk_players.data # JsonDump(ScrapedPlayers)
    /\ \E i \in DOMAIN players :
         /\ players[i].difficulty_score # rule_based_score(players[i])
         /\ players[i].games_played >= VeteranGames
         /\ disk_players.data[i]["difficulty_score"] = JsonNumber(players[i].difficulty_score)
         /\ Reloaded.players[i] = players[i]

----------------------------------------------------------------------------
(* Properties of a session from a fresh start, of the sampler's loop and of
   initialization *)

(* an entity record without its score *)
Scraped(p) == [k \in DOMAIN p \ {"difficulty_score"} |-> p[k]]

(* a step inside one session: the collection is loaded before and after *)
SessionStep == Loaded /\ Loaded'

(* C31: during a session difficulty_score is the only field of an entity
   record that changes: recording feedback, blending, retraining and the
   bulk refresh leave every other field of every entity as it was, and a
   feedback event without retrain changes the score of the rated entity
   only. *)
C31_OnlyScoreChanges ==
    [][SessionStep =>
        /\ DOMAIN players' = DOMAIN players
        /\ \A i \in DOMAIN players : Scraped(players'[i]) = Scraped(players[i])
        /\ (RateStep /\ ~last'.retrain) =>
             \A i \in DOMAIN players : i # current => players'[i] = players[i]
        /\ ~RateStep => players' = players]_vars

C31_Witness ==
    /\ last.op = "rate"
    /\ ~last.retrain
    /\ last.blended # last.p
    /\ players[last.i].difficulty_score = last.blended
    /\ Scraped(players[last.i]) = ScrapedPlayer(last.i)
    /\ \E j \in DOMAIN players :
         /\ j # last.i
         /\ players[j].position = players[last.i].position
         /\ players[j].difficulty_score # last.blended

(* the process runs for the first time: the files are as scraped, there is
   neither a feedback file nor a model file *)
Fresh == budget.restarts = MaxRestarts /\ Loaded

(* C32: in a session started with no persisted feedback and no persisted
   model a model exists exactly when at least 10 feedback events have been
   recorded; so 15 or more records without a model cannot occur there, and
   occur only in a session that loaded a history without its model. *)
C32_ModelIffTenEvents ==
    /\ Fresh => (model.trained <=> Len(feedback_data) >= MinTrainRows)
    /\ (Loaded /\ Len(feedback_data) >= RuleOnlyBelow /\ ~model.trained) =>
          /\ ~Fresh
          /\ loaded_count > 0
          /\ "model" \in lost

C32_Witness ==
    /\ Fresh
    /\ last.op = "rate"
    /\ Len(feedback_data) = MinTrainRows
    /\ model.trained
    /\ ~last.prev.trained

(* C33: in a fresh session, while fewer than 20 records exist, the stored
   difficulty_score of every unrated entity is its rule_based_score, so the
   early-phase sampler buckets the unrated entities by the Rule Scorer, also
   at 15..19 records, where get_current_score already asks the model. *)
C33_UnratedKeepRuleScore ==
    (Fresh /\ Len(feedback_data) < DiverseBelow) =>
        /\ \A i \in DOMAIN players :
             ~HasRecord(i) => players[i].difficulty_score = rule_based_score(players[i])
        /\ \A i \in Unrated : BucketOf(players[i]) = rule_based_score(players[i])

C33_Witness ==
    /\ Fresh
    /\ pc = "loop"
    /\ Len(feedback_data) \in RuleOnlyBelow..(DiverseBelow - 1)
    /\ model.trained
    /\ \E i \in Unrated :
         /\ get_current_score(feedback_data, model, players[i]) # rule_based_score(players[i])
         /\ BucketOf(players[i]) = rule_based_score(players[i])

(* C34: in a fresh session, immediately after the 10th feedback event (the
   first retrain) every entity's difficulty_score, those of the ten rated
   entities included, is its rule_based_score: the refresh routes through
   the Rule Scorer below 15 records, and none of the ten ratings is left in
   a stored score. *)
C34_FirstRefreshRestoresRules ==
    (Fresh /\ pc = "loop" /\ last.op = "rate" /\ Len(feedback_data) = RetrainEvery) =>
        /\ last.retrain
        /\ model.trained
        /\ \A i \in DOMAIN players :
             players[i].difficulty_score = rule_based_score(players[i])

C34_Witness ==
    /\ Fresh
    /\ pc = "loop"
    /\ last.op = "rate"
    /\ Len(feedback_data) = RetrainEvery
    /\ last.blended # rule_based_score(players[last.i])
    /\ players[last.i].difficulty_score = rule_based_score(players[last.i])
    /\ last.r # last.p
    /\ feedback_data[RetrainEvery].actual_difficulty = last.r
    /\ \A k \in DOMAIN feedback_data :
         players[EntityOf(k)].difficulty_score = rule_based_score(players[EntityOf(k)])

(* the entities without a feedback record when the session began: the
   history then held loaded_count records, one per rated entity *)
UnratedAtStart == Len(players) - loaded_count

(* C35: when the user answers every presented entity with a valid rating
   (no skip, quit or interrupt) the loop ends with the exhaustion signal
   after exactly as many feedback events as there were unrated entities at
   the start of the session. *)
C35_ExhaustedAfterEveryEntity ==
    (pc = "done" /\ last.op = "exhausted" /\ ~skipped) =>
        Len(feedback_data) - loaded_count = UnratedAtStart

(* the categories with the fewest actual ratings in the history *)
FewestRated ==
    {c \in Categories : \A d \in Categories : RatingsOf(c) <= RatingsOf(d)}

Lowest(cs) == CHOOSE c \in cs : \A d \in cs : c <= d

(* C36: in the early sampling phase, when several categories tie for the
   fewest actual ratings, the lowest-numbered tied category that has an
   unrated candidate is used; with an empty history the first entity comes
   from the lowest-numbered non-empty bucket. *)
C36_TieGoesToLowest ==
    (Loaded /\ Len(feedback_data) < DiverseBelow) =>
        LET open == {c \in FewestRated : UnratedIn(c) # {}}
            nonempty == {c \in Categories : UnratedIn(c) # {}}
        IN  /\ open # {} => Choices = UnratedIn(Lowest(open))
            /\ (Len(feedback_data) = 0 /\ nonempty # {}) =>
                  Choices = UnratedIn(Lowest(nonempty))

C36_Witness ==
    /\ pc = "loop"
    /\ Len(feedback_data) \in 1..(DiverseBelow - 1)
    /\ Cardinality({c \in FewestRated : UnratedIn(c) # {}}) >= 2
    /\ Choices = UnratedIn(Lowest({c \in FewestRated : UnratedIn(c) # {}}))

(* C37: in the early sampling phase the loop over the categories returns an
   entity whenever at least one entity is unrated, because every unrated
   entity is in one of the four buckets, and counting the past ratings per
   category never fails, because every recorded rating is 1, 2, 3 or 4. *)
C37_EarlyLoopReturns ==
    Loaded =>
        /\ \A k \in DOMAIN feedback_data : feedback_data[k].actual_difficulty \in Categories
        /\ SumSeq([c \in 1..4 |-> current_distribution(feedback_data)[c]]) = Len(feedback_data)
        /\ (Len(feedback_data) < DiverseBelow /\ Unrated # {}) =>
             LET buckets == by_difficulty(players, Unrated)
             IN  /\ UNION {buckets[c] : c \in Categories} = Unrated
                 /\ FirstCategory(buckets, current_distribution(feedback_data)) # {}
                 /\ Choices # {}
                 /\ Choices \subseteq Unrated

C37_Witness ==
    /\ pc = "loop"
    /\ last.op = "rate"
    /\ ~scripted
    /\ last.r = 4
    /\ Len(feedback_data) < DiverseBelow
    /\ Unrated # {}
    /\ \E c \in Categories : UnratedIn(c) = {}
    /\ \E c \in Categories : Choices = UnratedIn(c) /\ Choices # {}

(* a step of Construct: the files were read and the scores initialized *)
ConstructStep == pc = "init" /\ pc' = "loop"

(* C38: initialization gives the Rule Scorer output only to entities that
   have no difficulty_score yet: a score found in the persisted collection
   (a blended or model-derived one of an earlier session, say) is left as
   it is, and the collection is written back only if a score was added. *)
C38_InitializeKeepsScores ==
    [][ConstructStep =>
        LET read == load_players(disk_players)
            added == {i \in DOMAIN read : ~HasScore(read[i])}
        IN  /\ DOMAIN players' = DOMAIN read
            /\ \A i \in DOMAIN read \ added : players'[i] = read[i]
            /\ \A i \in added :
                 /\ players'[i].difficulty_score = rule_based_score(read[i])
                 /\ Scraped(players'[i]) = read[i]
            /\ added = {} => disk_players' = disk_players
            /\ added # {} => disk_players' = save_players(players')]_vars

C38_Witness ==
    /\ pc = "loop"
    /\ last.op = "construct"
    /\ budget.restarts < MaxRestarts
    /\ disk_players = save_players(players)
    /\ \E i \in DOMAIN players : players[i].difficulty_score # rule_based_score(players[i])
    /\ \E i \in DOMAIN players :
         /\ Len(feedback_data) >= RuleOnlyBelow
         /\ model.trained
         /\ players[i].difficulty_score # get_current_score(feedback_data, model, players[i])

====
